---- MODULE Spec2Model ----
(***************************************************************************)
(* Radioactive-Source-2.0: the three decay-fit scripts                     *)
(* (Radioactive_Code.py, final_fit.py main loop, final_fit.py "initial     *)
(* fits"), the two serial loggers (read_all_from_arduino.py,               *)
(* read_single_from_arduino.py) and the plotter linearize_all.py, as one   *)
(* state machine.  `script` says                                           *)
(* which program is running; each loop iteration of a program is one       *)
(* action.  The numerical solver (scipy curve_fit) is an oracle: it either *)
(* raises or returns parameters inside its bounds.                         *)
(***************************************************************************)
EXTENDS Integers, Sequences, FiniteSets, TLC

VARIABLES script, pc, i, t, yfit, label_text, last,
          channel_num, ser, csvfile, received, console,
          time_list, counts_list, lin

vars == <<script, pc, i, t, yfit, label_text, last,
          channel_num, ser, csvfile, received, console,
          time_list, counts_list, lin>>

fitVars == <<i, t, yfit, label_text, last>>

logVars == <<channel_num, ser, csvfile, received, console>>

linVars == <<time_list, counts_list, lin>>

(***************************************************************************)
(* Bounds of the model                                                     *)
(***************************************************************************)
\* longest series (rows of a CSV file) that is read
MaxRows == 2

\* largest amplitude the solver oracle returns
MaxAmp == 1

\* number of lines a logger receives in one run
MaxLines == 2

\* most columns on one received line
MaxCols == 6

(***************************************************************************)
(* Program constants                                                       *)
(***************************************************************************)
\* final_fit.py: for i in range(1, 5); the other scripts have 4 sources
NChan == 4

\* the loggers' minimum column count: len(cols) >= 5
MinCols == 5

FitScripts == {"Radioactive_Code", "final_fit", "initial_fits"}

LogScripts == {"read_all", "read_single"}

COL_TIME == "Time"

COL_SIGNAL == "Signal"

(***************************************************************************)
(* Sequences and numbers                                                   *)
(***************************************************************************)
Range(s) == {s[k] : k \in DOMAIN s}

SeqMax(s) == CHOOSE m \in Range(s) : \A x \in Range(s) : x <= m

SeqMin(s) == CHOOSE m \in Range(s) : \A x \in Range(s) : m <= x

SeqsUpTo(S, n) == UNION {[1..k -> S] : k \in 0..n}

\* a real number n/d, d > 0 (the floats of the scripts, taken exactly)
Rat(n, d) == [n |-> n, d |-> d]

RatDiv(r, k) == [n |-> r.n, d |-> r.d * k]

RatPos(r) == r.n > 0

RatEq(r, s) == r.n * s.d = s.n * r.d

\* t = np.array(time_list) / 1000.0 ; duration = t.max() - t.min()
Seconds(ms) == Rat(ms, 1000)

Duration(tms) == Seconds(SeqMax(tms) - SeqMin(tms))

(***************************************************************************)
(* Weights: sigma = np.sqrt(np.clip(y, 1, None))                           *)
(* A square root is kept exactly, as its radicand.                         *)
(***************************************************************************)
ClipZero(y, lo) == [k \in DOMAIN y |-> IF y[k] < 0 THEN 0 ELSE y[k]]

Clip(y, lo) == [k \in DOMAIN y |-> IF y[k] < lo THEN lo ELSE y[k]]

Sqrt(x) == [sqrt |-> x]

Square(w) == w.sqrt

SqrtLeq(w1, w2) == w1.sqrt <= w2.sqrt

Sigma(y) == [k \in DOMAIN y |-> Sqrt(Clip(y, 1)[k])]

(***************************************************************************)
(* float(): an optional sign followed by one or more digits                *)
(***************************************************************************)
Digits == <<"0", "1", "2", "3", "4", "5", "6", "7", "8", "9">>

IsDigit(c) == \E k \in 1..10 : Digits[k] = c

DigitVal(c) == (CHOOSE k \in 1..10 : Digits[k] = c) - 1

RECURSIVE DigitsVal(_, _)
DigitsVal(s, acc) ==
    IF s = <<>> THEN acc
    ELSE DigitsVal(Tail(s), 10 * acc + DigitVal(Head(s)))

AllDigits(s) == s # <<>> /\ \A k \in DOMAIN s : IsDigit(s[k])

\* err is the exception float() raises, "none" when it returns v
ParseFloat(s) ==
    IF AllDigits(s) THEN [err |-> "none", v |-> DigitsVal(s, 0)]
    ELSE IF s # <<>> /\ Head(s) = "-" /\ AllDigits(Tail(s))
         THEN [err |-> "none", v |-> 0 - DigitsVal(Tail(s), 0)]
    ELSE [err |-> "ValueError", v |-> 0]

(***************************************************************************)
(* The solver oracle: curve_fit raises, or returns popt within bounds      *)
(* (amplitudes >= 0, decay times >= 0, baseline free).                     *)
(***************************************************************************)
Amps == 0..MaxAmp

SolverRaises == [ok |-> FALSE, popt |-> <<>>]

SingleOutcomes ==
    {SolverRaises} \cup {[ok |-> TRUE, popt |-> <<A, 2, 0>>] : A \in Amps}

DoubleOutcomes ==
    {SolverRaises} \cup
    {[ok |-> TRUE, popt |-> <<A1, 1, A2, 2, 0>>] : A1 \in Amps, A2 \in Amps}

\* numpy float64 division: 0/0 is nan (a warning, no exception)
NpDiv(a, b) ==
    IF b = 0 THEN [nan |-> TRUE, n |-> 0, d |-> 1]
    ELSE [nan |-> FALSE, n |-> a, d |-> b]

NpTimes(q, k) == [nan |-> q.nan, n |-> q.n * k, d |-> q.d]

\* abund = (A / total_amp) * 100
Abundance(A, total_amp) == NpTimes(NpDiv(A, total_amp), 100)

(***************************************************************************)
(* What one loop iteration did: the record kept in `last`                  *)
(***************************************************************************)
NoFile == [exists |-> FALSE, header |-> <<>>, rows |-> <<>>]

NoLast ==
    [ch |-> 0, file |-> NoFile, fit_type |-> "", load |-> "none",
     subst |-> FALSE, tms |-> <<>>, y |-> <<>>, sigma |-> <<>>,
     solver |-> "notcalled", p0_tau |-> <<>>, popt |-> <<>>, abund |-> <<>>,
     printed |-> <<>>, drawn |-> <<>>, curve |-> 0, annot |-> 0, rmse |-> 0,
     exc |-> "none"]

\* module-level names that are not bound until a fit succeeds
Unbound == [def |-> FALSE, owner |-> 0, len |-> 0]

(***************************************************************************)
(* final_fit.py main loop, part A: csv.DictReader over one file            *)
(***************************************************************************)
Fields == {<<"-", "1">>, <<"0">>, <<"6", "0", "0", "0">>, <<"x">>}

\* the (time, signal) fields of a row
RowChoices ==
    {<<<<"0">>, <<"-", "1">>>>, <<<<"0">>, <<"0">>>>,
     <<<<"6", "0", "0", "0">>, <<"6", "0", "0", "0">>>>,
     <<<<"6", "0", "0", "0">>, <<"0">>>>,
     <<<<"6", "0", "0", "0">>, <<"x">>>>, <<<<"x">>, <<"0">>>>}

Headers == {<<"Time", "Signal">>, <<"Time", "Channel 3">>,
            <<"Time">>, <<"Elapsed", "Signal">>}

RowsOf(h) == SeqsUpTo({SubSeq(r, 1, Len(h)) : r \in RowChoices}, MaxRows)

Files ==
    {NoFile} \cup
    UNION {{[exists |-> TRUE, header |-> h, rows |-> rs] : rs \in RowsOf(h)} :
           h \in Headers}

\* float(row[key]); a short row leaves the key at None
RowField(header, row, key) ==
    IF key \notin Range(header) THEN [err |-> "KeyError", v |-> 0]
    ELSE LET idx == CHOOSE k \in DOMAIN header : header[k] = key
         IN  IF idx > Len(row) THEN [err |-> "TypeError", v |-> 0]
             ELSE ParseFloat(row[idx])

\* float(row[list(row.keys())[1]])
SecondKeyField(header, row) ==
    IF Len(header) < 2
    THEN IF Len(row) > Len(header)
         THEN [err |-> "TypeError", v |-> 0]    \* keys[1] is the restkey
         ELSE [err |-> "IndexError", v |-> 0]
    ELSE IF Len(row) < 2 THEN [err |-> "TypeError", v |-> 0]
    ELSE ParseFloat(row[2])

\* try float(row[COL_SIGNAL]) except KeyError: the second column
SignalField(header, row) ==
    LET sp == RowField(header, row, COL_SIGNAL)
    IN  IF sp.err = "KeyError"
        THEN [p |-> SecondKeyField(header, row), subst |-> TRUE]
        ELSE [p |-> sp, subst |-> FALSE]

RECURSIVE ReadRows(_, _, _, _, _)
ReadRows(header, rows, tl, sl, sub) ==
    IF rows = <<>>
    THEN [load |-> "ok", time_list |-> tl, signal_list |-> sl,
          subst |-> sub, err |-> "none"]
    ELSE LET r  == Head(rows)
             tp == RowField(header, r, COL_TIME)
             sf == SignalField(header, r)
         IN  IF tp.err # "none"
             THEN [load |-> "readerror", time_list |-> tl, signal_list |-> sl,
                   subst |-> sub, err |-> tp.err]
             ELSE IF sf.p.err # "none"
             THEN [load |-> "readerror", time_list |-> Append(tl, tp.v),
                   signal_list |-> sl, subst |-> sub, err |-> sf.p.err]
             ELSE ReadRows(header, Tail(rows), Append(tl, tp.v),
                           Append(sl, sf.p.v), sub \/ sf.subst)

LoadData(file) ==
    IF ~file.exists
    THEN [load |-> "notfound", time_list |-> <<>>, signal_list |-> <<>>,
          subst |-> FALSE, err |-> "none"]
    ELSE ReadRows(file.header, file.rows, <<>>, <<>>, FALSE)

(***************************************************************************)
(* final_fit.py main loop, part B and C: the try block of one channel      *)
(***************************************************************************)
FitTypes == {"single", "double", "triple"}

OutcomesFor(fit_type) ==
    IF fit_type = "single" THEN SingleOutcomes
    ELSE IF fit_type = "double" THEN DoubleOutcomes
    ELSE {SolverRaises}

\* numpy broadcasting of two 1-d arrays in (y - yfit)
Broadcastable(n, m) == n = m \/ n = 1 \/ m = 1

SinglePrints == <<"Tau", "Half-Life", "Abundance">>

DoublePrints == <<"Tau1", "Half-Life1", "Abundance1",
                  "Tau2", "Half-Life2", "Abundance2">>

\* p0 = [amp_span, duration/3, c_guess] or
\*      [amp_span/2, duration/10, amp_span/2, duration/2, c_guess]
MainTauGuess(fit_type, tms) ==
    IF fit_type = "single" THEN <<RatDiv(Duration(tms), 3)>>
    ELSE <<RatDiv(Duration(tms), 10), RatDiv(Duration(tms), 2)>>

\* total_amp = A1 + A2 ; abund_k = (A_k / total_amp) * 100
DoubleAbundances(popt) ==
    <<Abundance(popt[1], popt[1] + popt[3]),
      Abundance(popt[3], popt[1] + popt[3])>>

\* the try/except of lines 79-164; yf and lab are the values the names
\* yfit and label_text hold when the block is entered
FitBlock(ch, tms, y, fit_type, sol, yf, lab) ==
    LET n        == Len(y)
        isFit    == fit_type \in {"single", "double"}
        guessExc == n = 0                       \* max(y) of an empty series
        called   == ~guessExc /\ isFit
        fitted   == called /\ sol.ok
        yf1      == IF fitted THEN [def |-> TRUE, owner |-> ch, len |-> n]
                    ELSE yf
        lab1     == IF fitted THEN [def |-> TRUE, owner |-> ch, len |-> 0]
                    ELSE lab
        prints   == IF ~fitted THEN <<>>
                    ELSE IF fit_type = "single" THEN SinglePrints
                    ELSE DoublePrints
        excB     == IF guessExc THEN "ValueError"
                    ELSE IF called /\ ~sol.ok THEN "RuntimeError"
                    ELSE "none"
        excRmse  == IF ~yf1.def THEN "NameError"
                    ELSE IF ~Broadcastable(n, yf1.len) THEN "ValueError"
                    ELSE "none"
        excPlot  == IF Len(tms) # yf1.len THEN "ValueError" ELSE "none"
        excText  == IF ~lab1.def THEN "NameError" ELSE "none"
        exc      == IF excB # "none" THEN excB
                    ELSE IF excRmse # "none" THEN excRmse
                    ELSE IF excPlot # "none" THEN excPlot
                    ELSE excText
        gotRmse  == excB = "none" /\ excRmse = "none"
        gotCurve == gotRmse /\ excPlot = "none"
        gotAnnot == gotCurve /\ excText = "none"
    IN  [solver  |-> IF ~called THEN "notcalled"
                     ELSE IF sol.ok THEN "ok" ELSE "raised",
         p0_tau  |-> IF called THEN MainTauGuess(fit_type, tms) ELSE <<>>,
         popt    |-> IF fitted THEN sol.popt ELSE <<>>,
         abund   |-> IF fitted /\ fit_type = "double"
                     THEN DoubleAbundances(sol.popt) ELSE <<>>,
         printed |-> prints \o (IF gotRmse THEN <<"RMSE">> ELSE <<>>)
                            \o (IF exc # "none" THEN <<"Fit Failed">> ELSE <<>>),
         drawn   |-> (IF gotRmse THEN <<"Data">> ELSE <<>>)
                     \o (IF gotCurve THEN <<"Fit">> ELSE <<>>)
                     \o (IF gotAnnot THEN <<"Annotation", "Legend">> ELSE <<>>)
                     \o (IF exc # "none" THEN <<"Data (Fit Failed)">> ELSE <<>>),
         rmse    |-> IF gotRmse THEN yf1.owner ELSE 0,
         curve   |-> IF gotCurve THEN yf1.owner ELSE 0,
         annot   |-> IF gotAnnot THEN lab1.owner ELSE 0,
         exc     |-> exc,
         yfit    |-> yf1,
         label_text |-> lab1]

\* one pass of `for i in range(1, 5)` (lines 40-169)
MainLoopBody(ch, file, fit_type, sol, yf, lab) ==
    LET ld == LoadData(file)
        fb == FitBlock(ch, ld.time_list, ld.signal_list, fit_type, sol, yf, lab)
        base == [NoLast EXCEPT !.ch = ch, !.file = file, !.fit_type = fit_type,
                               !.load = ld.load, !.subst = ld.subst]
    IN  IF ld.load = "notfound"
        THEN [last |-> [base EXCEPT !.printed = <<"Error: not found">>,
                                    !.drawn = <<"File Not Found">>],
              yfit |-> yf, label_text |-> lab, loaded |-> FALSE]
        ELSE IF ld.load = "readerror"
        THEN [last |-> [base EXCEPT !.printed = <<"Error reading file">>,
                                    !.exc = ld.err],
              yfit |-> yf, label_text |-> lab, loaded |-> FALSE]
        ELSE [last |-> [base EXCEPT !.tms = ld.time_list,
                                    !.y = ld.signal_list,
                                    !.sigma = Sigma(ld.signal_list),
                                    !.solver = fb.solver,
                                    !.p0_tau = fb.p0_tau,
                                    !.popt = fb.popt,
                                    !.abund = fb.abund,
                                    !.printed = fb.printed,
                                    !.drawn = fb.drawn,
                                    !.rmse = fb.rmse,
                                    !.curve = fb.curve,
                                    !.annot = fb.annot,
                                    !.exc = fb.exc],
              yfit |-> fb.yfit, label_text |-> fb.label_text, loaded |-> TRUE]

(***************************************************************************)
(* Radioactive_Code.py and final_fit.py "initial fits": one file holding   *)
(* Time and four sources, read once, then one fit per source               *)
(***************************************************************************)
\* the numbers a well-formed field can hold
Vals == {ParseFloat(f).v : f \in {g \in Fields : ParseFloat(g).err = "none"}}

\* elapsed times are not negative
TimeVals == {v \in Vals : v >= 0}

LoadOutcomes == {"ok", "notfound", "malformed"}

SourcePrints == <<"N0", "Tau", "c", "RMSE">>

\* tau_guess = (t.max() - t.min()) / 3
RadioactiveTauGuess(tms) == RatDiv(Duration(tms), 3)

\* tau_guess = (t.max() - t.min()) / 3 if (t.max() - t.min()) > 0 else 1.0
InitialTauGuess(tms) ==
    IF RatPos(Duration(tms)) THEN RatDiv(Duration(tms), 3) ELSE Rat(1, 1)

\* Radioactive_Code.py lines 30-80: no try around the fit
RadioactiveBody(ch, tms, y, sol) ==
    LET base == [NoLast EXCEPT !.ch = ch, !.fit_type = "single",
                               !.load = "ok", !.tms = tms, !.y = y]
    IN  IF Len(y) = 0
        THEN [last |-> [base EXCEPT !.exc = "ValueError"], halts |-> TRUE]
        ELSE IF ~sol.ok
        THEN [last |-> [base EXCEPT !.sigma = Sigma(y), !.solver = "raised",
                                    !.p0_tau = <<RadioactiveTauGuess(tms)>>,
                                    !.exc = "RuntimeError"],
              halts |-> TRUE]
        ELSE [last |-> [base EXCEPT !.sigma = Sigma(y), !.solver = "ok",
                                    !.p0_tau = <<RadioactiveTauGuess(tms)>>,
                                    !.popt = sol.popt,
                                    !.printed = SourcePrints,
                                    !.drawn = <<"Data", "Fit", "Legend",
                                                "Annotation">>,
                                    !.rmse = ch, !.curve = ch, !.annot = ch],
              halts |-> FALSE]

\* final_fit.py lines 220-285: the guesses are outside the try
InitialFitsBody(ch, tms, y, sol) ==
    LET base == [NoLast EXCEPT !.ch = ch, !.fit_type = "single",
                               !.load = "ok", !.tms = tms, !.y = y]
    IN  IF Len(y) = 0
        THEN [last |-> [base EXCEPT !.exc = "ValueError"], halts |-> TRUE]
        ELSE IF ~sol.ok
        THEN [last |-> [base EXCEPT !.sigma = Sigma(y), !.solver = "raised",
                                    !.p0_tau = <<InitialTauGuess(tms)>>,
                                    !.printed = <<"Fit failed">>,
                                    !.drawn = <<"Data (Fit Failed)", "Legend">>,
                                    !.exc = "RuntimeError"],
              halts |-> FALSE]
        ELSE [last |-> [base EXCEPT !.sigma = Sigma(y), !.solver = "ok",
                                    !.p0_tau = <<InitialTauGuess(tms)>>,
                                    !.popt = sol.popt,
                                    !.printed = SourcePrints,
                                    !.drawn = <<"Data", "Fit", "Annotation",
                                                "Legend">>,
                                    !.rmse = ch, !.curve = ch, !.annot = ch],
              halts |-> FALSE]

(***************************************************************************)
(* Actions of the fitting scripts                                          *)
(***************************************************************************)
\* reading the whole file (Radioactive_Code.py 7-21, final_fit.py 184-207)
LoadAll ==
    /\ script \in {"Radioactive_Code", "initial_fits"}
    /\ pc = "load"
    /\ \E o \in LoadOutcomes :
         \/ /\ o = "ok"
            /\ \E tl \in SeqsUpTo(TimeVals, MaxRows) : t' = tl
            /\ pc' = "loop"
            /\ last' = last
         \/ /\ o = "notfound"
            /\ pc' = IF script = "initial_fits" THEN "exited" ELSE "halted"
            /\ last' = [last EXCEPT !.load = "notfound",
                                    !.exc = "FileNotFoundError"]
            /\ t' = t
         \/ /\ o = "malformed"
            /\ pc' = "halted"
            /\ last' = [last EXCEPT !.load = "readerror", !.exc = "ValueError"]
            /\ t' = t
    /\ UNCHANGED <<script, i, yfit, label_text>>
    /\ UNCHANGED logVars
    /\ UNCHANGED linVars

RadioactiveCodeIter ==
    /\ script = "Radioactive_Code"
    /\ pc = "loop"
    /\ i < NChan
    /\ \E y \in [1..Len(t) -> Vals], sol \in SingleOutcomes :
         LET r == RadioactiveBody(i + 1, t, y, sol)
         IN  /\ last' = r.last
             /\ pc' = IF r.halts THEN "halted" ELSE "body_done"
             /\ yfit' = IF r.last.solver = "ok"
                        THEN [def |-> TRUE, owner |-> i + 1, len |-> Len(y)]
                        ELSE yfit
    /\ UNCHANGED <<script, i, t, label_text>>
    /\ UNCHANGED logVars
    /\ UNCHANGED linVars

InitialFitsIter ==
    /\ script = "initial_fits"
    /\ pc = "loop"
    /\ i < NChan
    /\ \E y \in [1..Len(t) -> Vals], sol \in SingleOutcomes :
         LET r == InitialFitsBody(i + 1, t, y, sol)
         IN  /\ last' = r.last
             /\ pc' = IF r.halts THEN "halted" ELSE "body_done"
             /\ yfit' = IF r.last.solver = "ok"
                        THEN [def |-> TRUE, owner |-> i + 1, len |-> Len(y)]
                        ELSE yfit
    /\ UNCHANGED <<script, i, t, label_text>>
    /\ UNCHANGED logVars
    /\ UNCHANGED linVars

MainLoopIter ==
    /\ script = "final_fit"
    /\ pc = "loop"
    /\ i < NChan
    /\ \E file \in Files, fit_type \in FitTypes :
         \E sol \in OutcomesFor(fit_type) :
           LET r == MainLoopBody(i + 1, file, fit_type, sol, yfit, label_text)
           IN  /\ last' = r.last
               /\ yfit' = r.yfit
               /\ label_text' = r.label_text
    /\ pc' = "body_done"
    /\ UNCHANGED <<script, i, t>>
    /\ UNCHANGED logVars
    /\ UNCHANGED linVars

\* the `for` statement takes the next channel; the names bound inside the
\* body (time_list, signal_list, p0, popt, ...) are rebound before their
\* next use, yfit and label_text keep their values
NextChannel ==
    /\ script \in FitScripts
    /\ pc = "body_done"
    /\ pc' = "loop"
    /\ i' = i + 1
    /\ last' = NoLast
    /\ UNCHANGED <<script, t, yfit, label_text>>
    /\ UNCHANGED logVars
    /\ UNCHANGED linVars

\* plt.tight_layout(); plt.show() after the last channel
ShowPlots ==
    /\ script \in FitScripts
    /\ pc = "loop"
    /\ i = NChan
    /\ pc' = "done"
    /\ UNCHANGED <<script, i, t, yfit, label_text, last>>
    /\ UNCHANGED logVars
    /\ UNCHANGED linVars

InitFit ==
    /\ script \in FitScripts
    /\ pc = IF script = "final_fit" THEN "loop" ELSE "load"
    /\ i = 0
    /\ t = <<>>
    /\ yfit = Unbound
    /\ label_text = Unbound
    /\ last = NoLast

(***************************************************************************)
(* The serial loggers: read_all_from_arduino.py and                        *)
(* read_single_from_arduino.py                                             *)
(***************************************************************************)
BadByte == "#"      \* a byte that does not decode; errors='ignore' drops it

Whitespace == {" ", "\t", "\n", "\r"}

IsSpace(c) == c \in Whitespace

\* bytes.decode(errors='ignore')
Decode(raw) == SelectSeq(raw, LAMBDA c : c # BadByte)

RECURSIVE LStrip(_)
LStrip(s) == IF s # <<>> /\ IsSpace(Head(s)) THEN LStrip(Tail(s)) ELSE s

RECURSIVE RStrip(_)
RStrip(s) ==
    IF s # <<>> /\ IsSpace(s[Len(s)]) THEN RStrip(SubSeq(s, 1, Len(s) - 1))
    ELSE s

\* str.strip()
Strip(s) == RStrip(LStrip(s))

RECURSIVE SplitAcc(_, _, _, _)
SplitAcc(s, cur, acc, seps) ==
    IF s = <<>> THEN (IF cur = <<>> THEN acc ELSE Append(acc, cur))
    ELSE IF Head(s) \in seps
         THEN SplitAcc(Tail(s), <<>>,
                       IF cur = <<>> THEN acc ELSE Append(acc, cur), seps)
         ELSE SplitAcc(Tail(s), Append(cur, Head(s)), acc, seps)

SplitCommaToo(s) == SplitAcc(s, <<>>, <<>>, Whitespace \cup {","})

\* str.split() with no argument: runs of whitespace separate the columns
Split(s) == SplitAcc(s, <<>>, <<>>, Whitespace)

\* raw_line = ser.readline().decode(errors='ignore').strip()
RawLine(raw) == Strip(Decode(raw))

AcceptsFour(cols) == Len(cols) >= MinCols - 1

\* if len(cols) >= 5
Accepts(cols) == Len(cols) >= MinCols

\* data_row = cols[0:5]
RowAll(cols) == SubSeq(cols, 1, IF Len(cols) < 5 THEN Len(cols) ELSE 5)

\* data_row = [cols[0], cols[channel_num]]
RowSingle(cols, ch) == <<cols[1], cols[ch + 1]>>

\* the lines the device can send
FieldChars == <<"a", "b", "c", "d", "e", "f", "g", "h">>

RECURSIVE Join(_, _)
Join(fs, d) ==
    IF fs = <<>> THEN <<>>
    ELSE IF Len(fs) = 1 THEN fs[1]
    ELSE fs[1] \o <<d>> \o Join(Tail(fs), d)

LineFields(tf, n) == [k \in 1..n |-> IF k = 1 THEN tf ELSE <<FieldChars[k]>>]

Delims == {" ", "\t", ","}

EOL == <<"\r", "\n">>

RawLines ==
    {Join(LineFields(tf, n), d) \o EOL :
        tf \in {<<"1">>}, n \in 1..MaxCols, d \in Delims}
    \cup {<<>>, EOL,
          Join(LineFields(<<"2">>, MinCols), " ") \o EOL,
          <<" ", BadByte>> \o Join(LineFields(<<"3">>, MinCols), " ") \o EOL}

NoCsv == [state |-> "unopened", header |-> <<>>, rows |-> <<>>, flushed |-> 0]

HeaderAll == <<"Time", "Channel 1", "Channel 2", "Channel 3", "Channel 4">>

ChannelNames == <<"Channel 1", "Channel 2", "Channel 3", "Channel 4">>

HeaderSingle(ch) == <<"Time", ChannelNames[ch]>>

StartOutcomes == {"ok", "serial_fails", "reset_fails", "open_fails",
                  "interrupted"}

FinallySkip(s) == s

\* finally: if 'ser' in locals() and ser.is_open: ser.close()
Finally(s) == IF s = "open" THEN "closed" ELSE s

\* leaving `with open(...) as csvfile`: close() writes out what is buffered
WithExit(f) == [f EXCEPT !.state = "closed", !.flushed = Len(f.rows)]

\* the file as `with open(filename, 'w')` and the header row leave it
OpenedCsv(hdr) == [state |-> "open", header |-> hdr, rows |-> <<>>,
                   flushed |-> 0]

\* lines 18-33 (read_all) and 22-40 (read_single): up to the while loop
LogStart ==
    /\ script \in LogScripts
    /\ pc = "start"
    /\ IF script = "read_single" /\ (channel_num < 1 \/ channel_num > 4)
       THEN /\ pc' = "exited"
            /\ console' = "Error: SELECTED_CHANNEL"
            /\ UNCHANGED <<ser, csvfile>>
       ELSE \E o \in StartOutcomes :
              \/ /\ o = "serial_fails"      \* serial.Serial raises
                 /\ pc' = "done"
                 /\ console' = "Serial error"
                 /\ UNCHANGED <<ser, csvfile>>
              \/ /\ o = "reset_fails"       \* reset_input_buffer raises
                 /\ pc' = "done"
                 /\ console' = "Serial error"
                 /\ ser' = Finally("open")
                 /\ UNCHANGED csvfile
              \/ /\ o = "open_fails"        \* open(filename, 'w') raises
                 /\ pc' = "halted"
                 /\ console' = "Connected"
                 /\ ser' = Finally("open")
                 /\ UNCHANGED csvfile
              \/ /\ o = "interrupted"       \* Ctrl+C once the header is written
                 /\ pc' = "done"
                 /\ console' = "Logging stopped by user"
                 /\ ser' = Finally("open")
                 /\ csvfile' = WithExit(OpenedCsv(
                                  IF script = "read_all" THEN HeaderAll
                                  ELSE HeaderSingle(channel_num)))
              \/ /\ o = "ok"
                 /\ pc' = "loop"
                 /\ console' = "Logging"
                 /\ ser' = "open"
                 /\ csvfile' = OpenedCsv(IF script = "read_all" THEN HeaderAll
                                         ELSE HeaderSingle(channel_num))
    /\ UNCHANGED <<script, channel_num, received>>
    /\ UNCHANGED fitVars
    /\ UNCHANGED linVars

\* one pass of `while True` (read_all 35-57, read_single 42-68)
LogIter ==
    /\ script \in LogScripts
    /\ pc = "loop"
    /\ Len(received) < MaxLines
    /\ \E raw \in RawLines :
         LET raw_line == RawLine(raw)
             cols     == Split(raw_line)
             data_row == IF script = "read_all" THEN RowAll(cols)
                         ELSE IF channel_num + 1 <= Len(cols)
                         THEN RowSingle(cols, channel_num)
                         ELSE <<>>
         IN  /\ received' = Append(received, raw)
             /\ IF raw_line = <<>>
                THEN UNCHANGED <<csvfile, console, pc, ser>>
                ELSE IF Accepts(cols) /\ script = "read_single"
                        /\ channel_num + 1 > Len(cols)
                THEN \* cols[channel_num] raises IndexError: finally, then out
                     /\ console' = "IndexError"
                     /\ csvfile' = WithExit(csvfile)
                     /\ ser' = Finally(ser)
                     /\ pc' = "halted"
                ELSE IF Accepts(cols)
                THEN /\ csvfile' = [csvfile EXCEPT
                                      !.rows = Append(@, data_row),
                                      !.flushed = Len(csvfile.rows) + 1]
                     /\ console' = "Logged"
                     /\ UNCHANGED <<pc, ser>>
                ELSE /\ console' = "Ignored incomplete line"
                     /\ UNCHANGED <<csvfile, pc, ser>>
    /\ UNCHANGED <<script, channel_num>>
    /\ UNCHANGED fitVars
    /\ UNCHANGED linVars

\* ser.readline() raises SerialException: except, then finally
LogSerialError ==
    /\ script \in LogScripts
    /\ pc = "loop"
    /\ pc' = "done"
    /\ console' = "Serial error"
    /\ csvfile' = WithExit(csvfile)
    /\ ser' = Finally(ser)
    /\ UNCHANGED <<script, channel_num, received>>
    /\ UNCHANGED fitVars
    /\ UNCHANGED linVars

\* Ctrl+C during the loop: except KeyboardInterrupt, then finally
LogInterrupt ==
    /\ script \in LogScripts
    /\ pc = "loop"
    /\ pc' = "done"
    /\ console' = "Logging stopped by user"
    /\ csvfile' = WithExit(csvfile)
    /\ ser' = Finally(ser)
    /\ UNCHANGED <<script, channel_num, received>>
    /\ UNCHANGED fitVars
    /\ UNCHANGED linVars

\* the row the logger writes for an accepted line
DataRow(cols) ==
    IF script = "read_all" THEN RowAll(cols) ELSE RowSingle(cols, channel_num)

\* Ctrl+C between writer.writerow(data_row) and csvfile.flush(): the row is
\* buffered; leaving the with block closes the file, then except and finally
LogInterruptMidWrite ==
    /\ script \in LogScripts
    /\ pc = "loop"
    /\ Len(received) < MaxLines
    /\ \E raw \in RawLines :
         LET cols == Split(RawLine(raw))
         IN  /\ RawLine(raw) # <<>>
             /\ Accepts(cols)
             /\ received' = Append(received, raw)
             /\ csvfile' = WithExit([csvfile EXCEPT
                                      !.rows = Append(@, DataRow(cols))])
    /\ pc' = "done"
    /\ console' = "Logging stopped by user"
    /\ ser' = Finally(ser)
    /\ UNCHANGED <<script, channel_num>>
    /\ UNCHANGED fitVars
    /\ UNCHANGED linVars

\* writer.writerow raises OSError for an accepted line: the row is not
\* written; the exception leaves the with block, passes both except clauses
\* and the finally block, and ends the function.  `received` holds the lines
\* whose handling went through; the line that was being written is dropped.
LogWriteError ==
    /\ script \in LogScripts
    /\ pc = "loop"
    /\ Len(received) < MaxLines
    /\ \E raw \in RawLines :
         /\ RawLine(raw) # <<>>
         /\ Accepts(Split(RawLine(raw)))
    /\ received' = received
    /\ csvfile' = WithExit(csvfile)
    /\ pc' = "halted"
    /\ console' = "OSError"
    /\ ser' = Finally(ser)
    /\ UNCHANGED <<script, channel_num>>
    /\ UNCHANGED fitVars
    /\ UNCHANGED linVars

InitLog ==
    /\ script \in LogScripts
    /\ pc = "start"
    /\ channel_num \in IF script = "read_single" THEN 0..5 ELSE {0}
    /\ ser = "unbound"
    /\ csvfile = NoCsv
    /\ received = <<>>
    /\ console = ""

(***************************************************************************)
(* linearize_all.py: one semi-log plot per file                            *)
(***************************************************************************)
\* what the pass over the current file has done so far
NoLin == [nread |-> 0, msg |-> "", plot |-> "none", tlen |-> 0, ylen |-> 0]

\* csv.DictReader fieldnames: None for an empty file, else the header
LinHeaders == {<<>>, <<"Time">>, <<"Time", "Channel 3">>}

OpenOutcomes == {"ok", "notfound", "open_fails"}

\* a data row: two fields, or one field only (the second key is then None)
LinRows == [1..2 -> Fields] \cup [1..1 -> Fields]

\* float(row[col]) for the col-th header name
LinField(row, col) ==
    IF col > Len(row) THEN [err |-> "TypeError", v |-> 0]
    ELSE ParseFloat(row[col])

\* lines 45-49: both appends under one try, `continue` on ValueError
LinAppend(tl, cl, row) ==
    LET tp == LinField(row, 1)
        cp == LinField(row, 2)
        tl1 == IF tp.err = "none" THEN Append(tl, tp.v) ELSE tl
    IN  IF tp.err # "none"
        THEN [time_list |-> tl, counts_list |-> cl, err |-> tp.err]
        ELSE IF cp.err # "none"
        THEN [time_list |-> tl1, counts_list |-> cl, err |-> cp.err]
        ELSE [time_list |-> tl1, counts_list |-> Append(cl, cp.v),
              err |-> "none"]

\* lines 20-42: next file, fresh lists, open it and read its header
LinOpen ==
    /\ script = "linearize_all"
    /\ pc = "file"
    /\ i < NChan
    /\ time_list' = <<>>
    /\ counts_list' = <<>>
    /\ \E o \in OpenOutcomes :
         \/ /\ o = "notfound"
            /\ lin' = [NoLin EXCEPT !.msg = "Skipping (Not Found)"]
            /\ pc' = "plot"
         \/ /\ o = "open_fails"
            /\ lin' = [NoLin EXCEPT !.msg = "Error reading"]
            /\ pc' = "plot"
         \/ /\ o = "ok"
            /\ \E headers \in LinHeaders :
                 /\ lin' = NoLin
                 /\ pc' = IF Len(headers) >= 2 THEN "rows" ELSE "plot"
    /\ UNCHANGED <<script, i>>
    /\ UNCHANGED <<t, yfit, label_text, last>>
    /\ UNCHANGED logVars

\* lines 44-51: one row of the reader
LinRow ==
    /\ script = "linearize_all"
    /\ pc = "rows"
    /\ lin.nread < MaxRows
    /\ \E row \in LinRows :
         LET r == LinAppend(time_list, counts_list, row)
         IN  /\ time_list' = r.time_list
             /\ counts_list' = r.counts_list
             /\ IF r.err \in {"none", "ValueError"}
                THEN /\ lin' = [lin EXCEPT !.nread = @ + 1]
                     /\ pc' = "rows"
                ELSE \* not a ValueError: the outer except ends the reading
                     /\ lin' = [lin EXCEPT !.nread = @ + 1,
                                           !.msg = "Error reading"]
                     /\ pc' = "plot"
    /\ UNCHANGED <<script, i>>
    /\ UNCHANGED <<t, yfit, label_text, last>>
    /\ UNCHANGED logVars

\* the reader is exhausted
LinEndOfFile ==
    /\ script = "linearize_all"
    /\ pc = "rows"
    /\ pc' = "plot"
    /\ UNCHANGED <<script, i>>
    /\ UNCHANGED linVars
    /\ UNCHANGED <<t, yfit, label_text, last>>
    /\ UNCHANGED logVars

\* lines 53-68: semilogy(t, y) needs x and y of the same length
LinPlot ==
    /\ script = "linearize_all"
    /\ pc = "plot"
    /\ IF time_list = <<>>
       THEN /\ lin' = [lin EXCEPT !.plot = "skipped"]
            /\ pc' = "file"
            /\ i' = i + 1
       ELSE IF Len(time_list) # Len(counts_list)
       THEN /\ lin' = [lin EXCEPT !.plot = "raised",
                                  !.tlen = Len(time_list),
                                  !.ylen = Len(counts_list)]
            /\ pc' = "halted"
            /\ i' = i
       ELSE /\ lin' = [lin EXCEPT !.plot = "drawn",
                                  !.tlen = Len(time_list),
                                  !.ylen = Len(counts_list)]
            /\ pc' = "file"
            /\ i' = i + 1
    /\ UNCHANGED <<script, time_list, counts_list>>
    /\ UNCHANGED <<t, yfit, label_text, last>>
    /\ UNCHANGED logVars

\* lines 70-73: after the last file
LinShow ==
    /\ script = "linearize_all"
    /\ pc = "file"
    /\ i = NChan
    /\ pc' = "done"
    /\ UNCHANGED <<script, i>>
    /\ UNCHANGED linVars
    /\ UNCHANGED <<t, yfit, label_text, last>>
    /\ UNCHANGED logVars

InitLin ==
    /\ script = "linearize_all"
    /\ pc = "file"
    /\ i = 0
    /\ time_list = <<>>
    /\ counts_list = <<>>
    /\ lin = NoLin

(***************************************************************************)
(* The specification                                                       *)
(***************************************************************************)
Init ==
    \/ /\ InitFit
       /\ channel_num = 0 /\ ser = "unbound" /\ csvfile = NoCsv
       /\ received = <<>> /\ console = ""
       /\ time_list = <<>> /\ counts_list = <<>> /\ lin = NoLin
    \/ /\ InitLog
       /\ i = 0 /\ t = <<>> /\ yfit = Unbound /\ label_text = Unbound
       /\ last = NoLast
       /\ time_list = <<>> /\ counts_list = <<>> /\ lin = NoLin
    \/ /\ InitLin
       /\ t = <<>> /\ yfit = Unbound /\ label_text = Unbound
       /\ last = NoLast
       /\ channel_num = 0 /\ ser = "unbound" /\ csvfile = NoCsv
       /\ received = <<>> /\ console = ""

Next ==
    \/ LoadAll
    \/ RadioactiveCodeIter
    \/ InitialFitsIter
    \/ MainLoopIter
    \/ NextChannel
    \/ ShowPlots
    \/ LogStart
    \/ LogIter
    \/ LogSerialError
    \/ LogInterrupt
    \/ LogInterruptMidWrite
    \/ LogWriteError
    \/ LinOpen
    \/ LinRow
    \/ LinEndOfFile
    \/ LinPlot
    \/ LinShow

Spec == Init /\ [][Next]_vars

(***************************************************************************)
(* Properties                                                              *)
(***************************************************************************)
FailureMarks == {"Fit Failed", "Fit failed"}

MarkedFailed == \E m \in Range(last.printed) : m \in FailureMarks

\* C1: in every fitting script a failure of the solver on a channel is
\* reported and does not end the run: the loop goes on to the later channels.
C1_FitFailureNeverFatal ==
    (script \in FitScripts /\ last.solver = "raised")
        => (pc # "halted" /\ MarkedFailed)

\* C2: an empty series is detected before the solver is called and is
\* reported as its own condition: the script does not stop with an unhandled
\* exception and the report is not the one of a solver failure.
C2_EmptySeriesDistinct ==
    (script \in FitScripts /\ last.load = "ok" /\ Len(last.y) = 0)
        => (last.solver = "notcalled" /\ pc # "halted" /\ ~MarkedFailed)

\* C3: the decay-time guess handed to the solver is strictly positive for
\* every non-empty series, and is 1.0 when the duration of the series is 0.
C3_TauGuessPositive ==
    (script \in FitScripts /\ last.solver # "notcalled") =>
        \A k \in DOMAIN last.p0_tau :
            /\ RatPos(last.p0_tau[k])
            /\ ~RatPos(Duration(last.tms)) => RatEq(last.p0_tau[k], Rat(1, 1))

FileMissing(file) == ~file.exists

LacksSignal(file) == file.exists /\ COL_SIGNAL \notin Range(file.header)

Malformed(file) ==
    /\ file.exists
    /\ \E r \in Range(file.rows) : \E f \in Range(r) : ParseFloat(f).err # "none"

\* any error report counts as surfacing the error
ErrorSurfaced ==
    \E m \in Range(last.printed) :
        m \in {"Error: not found", "Error reading file"} \cup FailureMarks

\* C4: in the per-file script a file that is missing, has no 'Signal' column
\* or holds a malformed number has its error surfaced, the solver is not
\* called for it, and no other column stands in for the signal column.
C4_InputErrorsSurfaced ==
    (/\ script = "final_fit" /\ pc = "body_done"
     /\ (FileMissing(last.file) \/ LacksSignal(last.file) \/ Malformed(last.file)))
        => (ErrorSurfaced /\ last.solver = "notcalled" /\ ~last.subst)

ResultPrints ==
    IF last.fit_type = "double" THEN Range(DoublePrints) \cup {"RMSE"}
    ELSE Range(SinglePrints) \cup {"RMSE"}

AllEmitted ==
    /\ ResultPrints \subseteq Range(last.printed)
    /\ {"Fit", "Annotation"} \subseteq Range(last.drawn)

NoneEmitted ==
    /\ Range(last.printed) \subseteq FailureMarks
    /\ Range(last.drawn) \cap {"Fit", "Annotation"} = {}

\* C5: a channel of the per-file script either has all its results emitted
\* and is not marked failed, or is marked 'Fit Failed' and has none of them.
C5_AllOrNothing ==
    (script = "final_fit" /\ pc = "body_done" /\ last.load = "ok")
        => \/ ~MarkedFailed /\ AllEmitted
           \/ MarkedFailed /\ NoneEmitted

\* C6: the two abundances of a double fit are 100*A1/(A1+A2) and
\* 100*A2/(A1+A2), neither is NaN, and they sum to 100.
C6_AbundancesSumTo100 ==
    (script = "final_fit" /\ last.abund # <<>>) =>
        LET a1 == last.abund[1]
            a2 == last.abund[2]
            A1 == last.popt[1]
            A2 == last.popt[3]
        IN  /\ ~a1.nan /\ ~a2.nan
            /\ a1.n * (A1 + A2) = 100 * A1 * a1.d
            /\ a2.n * (A1 + A2) = 100 * A2 * a2.d
            /\ a1.n * a2.d + a2.n * a1.d = 100 * a1.d * a2.d

\* C9: what is reported for a channel comes from that channel alone: the
\* RMSE, the fit curve and the annotation shown for a channel are never
\* values computed for an earlier channel.
C9_NoCarryOver ==
    (script = "final_fit" /\ pc = "body_done") =>
        /\ last.rmse \in {0, last.ch}
        /\ last.curve \in {0, last.ch}
        /\ last.annot \in {0, last.ch}

MaxOf(a, b) == IF a >= b THEN a ELSE b

\* C10: wherever the solver is called, the weight of sample k satisfies
\* weight(k)^2 = max(count(k), 1); it is at least 1, hence never zero, and a
\* larger count never has a smaller weight.
C10_WeightFloor ==
    (script \in FitScripts /\ last.solver # "notcalled") =>
        /\ DOMAIN last.sigma = DOMAIN last.y
        /\ \A k \in DOMAIN last.y :
            /\ Square(last.sigma[k]) = MaxOf(last.y[k], 1)
            /\ Square(last.sigma[k]) >= 1
            /\ \A j \in DOMAIN last.y :
                 last.y[j] <= last.y[k] => SqrtLeq(last.sigma[j], last.sigma[k])

\* a solver call on a series holding a count below 1 and a count above 1
C10_Witness ==
    /\ script \in FitScripts
    /\ last.solver # "notcalled"
    /\ \E j \in DOMAIN last.y : last.y[j] < 1
    /\ \E k \in DOMAIN last.y : last.y[k] > 1

(***************************************************************************)
(* Properties of the loggers                                               *)
(***************************************************************************)
Columns(raw) == Split(RawLine(raw))

FullLines == SelectSeq(received, LAMBDA l : Len(Columns(l)) >= 5)

RowWidth == IF script = "read_all" THEN 5 ELSE 2

\* C7: the rows of the CSV are exactly the received lines of at least 5
\* columns, in arrival order; each row has the configured number of fields
\* (5, or 2 for the single-channel logger), each taken from a column of its
\* line; a shorter line gives no row and the channel index is in range.
C7_RowsAreFullLines ==
    script \in LogScripts =>
        /\ Len(csvfile.rows) = Len(FullLines)
        /\ \A k \in DOMAIN csvfile.rows :
             /\ Len(csvfile.rows[k]) = RowWidth
             /\ csvfile.rows[k][1] = Columns(FullLines[k])[1]
             /\ \A j \in DOMAIN csvfile.rows[k] :
                  csvfile.rows[k][j] \in Range(Columns(FullLines[k]))
        /\ console # "IndexError"
        /\ (script = "read_single" /\ pc = "loop") => channel_num \in 1..4

\* a short line was ignored and a full line was logged as a row
C7_Witness ==
    /\ script \in LogScripts
    /\ \E k \in DOMAIN received : Len(Columns(received[k])) \in 1..4
    /\ Len(csvfile.rows) >= 1
    /\ csvfile.rows[Len(csvfile.rows)] # <<>>
    /\ console = "Logged"

CommaLine(n) == Join(LineFields(<<"1">>, n), ",") \o EOL

SpaceLine(n) == Join(LineFields(<<"1">>, n), " ") \o EOL

CommaLines == {CommaLine(n) : n \in 2..MaxCols}

LastReceived == received[Len(received)]

ExpectedRow(fields) ==
    IF script = "read_all" THEN SubSeq(fields, 1, 5)
    ELSE <<fields[1], fields[channel_num + 1]>>

\* C8 as stated: a line of 5 comma-separated fields is split into 5 columns
\* and appended as a row, as the whitespace-separated line would be.
C8_CommaLinesLogged ==
    (script \in LogScripts /\ received # <<>>
     /\ LastReceived = CommaLine(MinCols))
        => /\ console = "Logged"
           /\ csvfile.rows # <<>>
           /\ csvfile.rows[Len(csvfile.rows)]
                = ExpectedRow(LineFields(<<"1">>, MinCols))

\* C8 amended: the loggers split on whitespace only.  A line whose fields are
\* separated by commas alone is one column: it is ignored and adds no row,
\* while the whitespace-separated line of the same 5 fields adds its row.
C8_WhitespaceOnly ==
    [][(script \in LogScripts /\ received' # received) =>
         LET l == received'[Len(received')]
         IN  /\ l \in CommaLines =>
                  /\ Len(Columns(l)) = 1
                  /\ csvfile' = csvfile
                  /\ console' = "Ignored incomplete line"
             /\ l = SpaceLine(MinCols) =>
                  csvfile'.rows =
                       Append(csvfile.rows,
                              ExpectedRow(LineFields(<<"1">>, MinCols)))]_vars

\* a line of 5 comma-separated fields has just been received and ignored
C8_Witness ==
    /\ script \in LogScripts
    /\ received # <<>>
    /\ LastReceived = CommaLine(MinCols)
    /\ console = "Ignored incomplete line"

(***************************************************************************)
(* Properties of linearize_all.py                                          *)
(***************************************************************************)
\* C11: after every row, whatever its fields, the time list and the count
\* list have the same length, so the two sequences handed to the plot are
\* parallel.
C11_ListsParallel ==
    script = "linearize_all" =>
        /\ Len(time_list) = Len(counts_list)
        /\ lin.tlen = lin.ylen
        /\ lin.plot # "raised"

(***************************************************************************)
(* Properties of the loggers' termination                                  *)
(***************************************************************************)
Ended == pc \in {"done", "halted", "exited"}

\* C12: however log_serial_data_to_csv ends once the serial port has been
\* opened (serial error, Ctrl+C, failure to open or write the CSV file, any
\* other exception in the loop), the port is closed when it ends, and every
\* row accepted before that has been flushed to the file.
C12_PortClosedRowsFlushed ==
    script \in LogScripts =>
        /\ Ended => ser # "open"
        /\ pc = "loop" => ser = "open"
        /\ csvfile.flushed = Len(csvfile.rows)
        /\ (Ended /\ csvfile.state # "unopened") => csvfile.state = "closed"

\* an exception no except clause catches ended the run after a row was logged
C12_Witness ==
    /\ script \in LogScripts
    /\ pc = "halted"
    /\ ser = "closed"
    /\ csvfile.rows # <<>>
    /\ csvfile.flushed = Len(csvfile.rows)

====
